---- MODULE Spec2Model ----
(***************************************************************************)
(* A model of the ATEM client's session engine (src/src/atem.cpp), its     *)
(* sequence tracker (src/include/sequence_check.h), the per-field state    *)
(* wrapper (src/include/atem_state.h) and the part of the state mirror     *)
(* that the receive loop writes.                                           *)
(*                                                                         *)
(* The receive loop (Atem::task_) is modelled one loop iteration per       *)
(* action: an iteration either times out (Timeout, and ProbeSend when it   *)
(* sends a keepalive probe) or receives and processes one datagram         *)
(* (Recv).  The caller side (Atem::SendCommands) runs in another thread    *)
(* and is modelled in steps so that the receive loop can interleave with   *)
(* it.  The receive loop finds send_mutex_ free when it asks for it, and   *)
(* state_mutex_ unless a user thread holds it (SpecMutex); the socket      *)
(* accepts what the loop sends.                                            *)
(*                                                                         *)
(* The specifications share these actions and differ in the traffic of     *)
(* the peer and in where they start: Spec adds a caller thread,            *)
(* SpecSession varies the handshake, SpecTracker varies the remote packet  *)
(* ids, SpecBuffer fills send_packets_, SpecOrder follows consecutive      *)
(* calls in an Active session, SpecCounter follows the local id counter    *)
(* past 0x7FFF, SpecTopology changes the topology, and SpecMutex adds a    *)
(* user thread that locks the mirror, SpecKeyer switches upstream keyers   *)
(* and SpecRetry rejects the handshake, with the socket timeout as         *)
(* fairness.  SpecAdd, SpecAddWrap and SpecNewer call the SequenceCheck by *)
(* itself, SpecField a mirror field, SpecIter the command loop over one    *)
(* packet and SpecEncode the DskAuto encoder; SpecLocks follows the        *)
(* threads, the destructor included, around the two mutexes only.          *)
(***************************************************************************)
EXTENDS Integers, Sequences, FiniteSets, TLC

\* ------------------------------------------------------------------------
\* Program constants
\* ------------------------------------------------------------------------

\* Packet flags as the code tests and sets them (atem_packet.h:37-41).
kFlagAckRequest == 1
kFlagInit == 2
kFlagRetransmission == 4
kFlagResend == 8
kFlagAckResponse == 16

\* Flags of the keepalive probe, 0x11 (atem.cpp:119).
kFlagsProbe == 17

\* Session id used before the peer assigned one, 0x0B06 (atem.cpp:752).
kInitSessionId == 2822

\* INIT status bytes (atem.cpp:170, atem.cpp:176).
kInitAccepted == 2
kInitNoSlot == 3

\* Header length and the length of the INIT request (atem.cpp:786).
kHeaderLen == 12
kHelloLen == 20

\* Value written by SetUnknown in a resend request, 0x100 (atem.cpp:255).
kUnknownResend == 256

\* The timeout path compares ack_count with 4 (atem.cpp:107) and parks it at
\* INT_MAX once the connection was declared dead (atem.cpp:110).
kAckCountLimit == 4
kIntMax == 2147483647

\* Capacity test of send_packets_ in SendCommands (atem.cpp:705).
kMaxStored == 32

\* Width of SequenceCheck::received_ in bits (sequence_check.h:33).
kRecvLen == 32

\* INT16_MAX, the mask of the tracker arithmetic (sequence_check.h:36), and
\* INT16_MIN, the last_change_id_ of a state never set (atem_state.h:27).
kInt16Max == 32767
kInt16Min == -32768

\* Modulus of uint16_t counters such as local_id_ (atem.h:389).
kUint16Mod == 65536

\* Indexes of the event kinds, in the order of enum Event (atem.h:39-100).
kEventUsk == 4
kEventPid == 8
kEventSource == 10
kEventTopology == 12

\* The last protocol version with the keyer of DDsA at body offset 0
\* (atem_command.h:177).
kDskMajor == 2
kDskMinor == 27

\* The command loop stops after 512 commands (atem.cpp:320); a command
\* header is 8 bytes (atem_command.h:55-76).
kMaxCommands == 512
kCommandHeader == 8

\* KeOn is ignored for a keyer above 15 (atem.cpp:541); usk_on_air is a
\* uint16_t (atem_types.h:257) and on_air a byte (atem.cpp:547).
kMaxKeyer == 15
kUskBits == 16
kByteBits == 8

\* ------------------------------------------------------------------------
\* Bounds of the model
\* ------------------------------------------------------------------------

\* Largest local id the model lets the engine assign.
MaxLocalId == 1

\* Number of packets the model lets callers keep stored at once.
MaxHeld == 1

\* Largest local id of the specification that fills send_packets_.
MaxBufferId == 34

\* Local ids read and packets held in the specification of consecutive
\* calls.
MaxOrderId == 2
MaxOrderHeld == 2

\* Largest value written to a mirror field used by itself.
MaxFieldValue == 3

\* Largest major version and largest keyer handed to DskAuto.
MaxMajor == 3
MaxKeyer == 4

\* Packets held in send_packets_ where only the mutexes are followed.
MaxLockStored == 2

\* Largest buffer offset up to which the command iterator is followed.
MaxIterOffset == 36

\* How far below 0x7FFF the local id counter of a long session starts.
WrapLead == 2

\* How far past 0x7FFF the local id counter is followed.
WrapPast == 2

\* ------------------------------------------------------------------------
\* Bit helpers
\* ------------------------------------------------------------------------

\* (flags & bit) != 0 for a single-bit mask.
HasFlag(flags, bit) == ((flags \div bit) % 2) = 1

\* flags | bit for a single-bit mask.
SetFlag(flags, bit) == IF HasFlag(flags, bit) THEN flags ELSE flags + bit

\* x & INT16_MAX on a (possibly negative) int.
And15(x) == x % (kInt16Max + 1)

Abs(x) == IF x < 0 THEN -x ELSE x

\* ------------------------------------------------------------------------
\* SequenceCheck (sequence_check.h).  received_ is a 32-bit mask, held here
\* as the set of its set bits.
\* ------------------------------------------------------------------------

AllBits == 0 .. (kRecvLen - 1)

\* SequenceCheck(): offset_{1}, last_id_{0}, received_{UINT32_MAX - 1}.
SequenceCheckInit ==
    [offset_ |-> 1, last_id_ |-> 0, received_ |-> AllBits \ {0}]

\* received_ <<= n.
ShiftLeft(received, n) == {i + n : i \in received} \cap AllBits

\* Outcomes of the expression 1 << offset.  For offset >= 32 the shift is
\* undefined; builds either reduce the count modulo the word size ("wrap")
\* or produce 0 ("zero").  The result is the set of set bits of the mask.
ShiftOutcomes == {"wrap", "zero"}

OneShifted(offset, ub) ==
    IF offset < kRecvLen THEN {offset}
    ELSE IF ub = "wrap" THEN {offset % kRecvLen} ELSE {}

\* The bit of received_ that Add tests and sets once the window has been
\* moved: offset = abs(id - this->offset_) (sequence_check.h:43).
BitIndex(id, anchor) == Abs(id - anchor)

\* SequenceCheck::Add: [ok, seq] is the return value and the new tracker.
Add(seq, id, ub) ==
    LET delta == And15(id - seq.offset_)
        moved == delta < kRecvLen
        recv1 == IF moved THEN ShiftLeft(seq.received_, delta) ELSE seq.received_
        off1 == IF moved THEN id ELSE seq.offset_
        offset == BitIndex(id, off1)
        mask == OneShifted(offset, ub)
        dup == (recv1 \cap mask) # {}
    IN [ok |-> ~dup,
        seq |-> [offset_ |-> off1, last_id_ |-> id,
                 received_ |-> IF dup THEN recv1 ELSE recv1 \cup mask]]

\* SequenceCheck::GetMissing: -1 when nothing is missing.
GetMissing(seq) ==
    LET clear == (AllBits \ {0}) \ seq.received_
    IN IF seq.received_ = AllBits \/ clear = {} THEN -1
       ELSE LET i == CHOOSE b \in clear : \A c \in clear : c <= b
            IN And15(seq.offset_ - i)

\* SequenceCheck::GetLastId.
GetLastId(seq) == seq.last_id_

\* SequenceCheck::IsNewer.
IsNewer(seq, id) == seq.last_id_ < id

\* A freshly constructed SequenceCheck on which Add has not been called:
\* seq is the object, id and ret the argument and return value of the last
\* Add, fresh whether that id had never been passed to Add before, pair
\* whether the call repeated the id of a fresh call right before it, added
\* the ids passed to Add so far; arg and newer are the argument and return
\* value of the last IsNewer call.
TrackerInit ==
    [seq |-> SequenceCheckInit, id |-> -1, ret |-> TRUE, fresh |-> FALSE,
     pair |-> FALSE, added |-> {}, arg |-> -1, newer |-> FALSE]

\* ------------------------------------------------------------------------
\* AtemState<T> (atem_state.h)
\* ------------------------------------------------------------------------

\* AtemState(const T &state = T()): never set.
AtemStateInit == [last_change_id_ |-> kInt16Min, state_ |-> 0]

IsValid(s) == s.last_change_id_ # kInt16Min

\* AtemState::IsNewer (atem_state.h:62-66), the query whether the field has
\* data at least as new as packet id; Set does not call it.
AtemStateIsNewer(s, id) ==
    IF ~IsValid(s) THEN FALSE
    ELSE IF id = 0 THEN TRUE
    ELSE s.last_change_id_ > 0 /\ id <= s.last_change_id_

\* AtemState::Set: the new wrapper.
AtemStateSet(s, seq, value) ==
    IF IsNewer(seq, s.last_change_id_) THEN s
    ELSE [last_change_id_ |-> seq.last_id_, state_ |-> value]

\* A default-constructed AtemState on which Set has not been called: st is
\* the object, id and value the packet id and value of the last Set, before
\* the object that call was made on.
FieldInit ==
    [st |-> AtemStateInit, id |-> -1, value |-> 0, before |-> AtemStateInit]

\* ------------------------------------------------------------------------
\* Packets (atem_packet.h).  A packet is a record of its header fields and
\* its payload; status is byte 12 of an INIT packet, wire is the number of
\* bytes the socket delivered.
\* ------------------------------------------------------------------------

\* AtemPacket(flags, session, length): the header is zeroed, the length is
\* at least 12 (atem_packet.cpp:10-22).
AtemPacket(flags, session, length) ==
    [flags |-> flags, len |-> IF length < kHeaderLen THEN kHeaderLen ELSE length,
     session |-> session, ack_id |-> 0, resend_id |-> 0, unknown |-> 0,
     id |-> 0, payload |-> <<>>]

\* The INIT request of Reconnect_ (atem.cpp:786-788): byte 12 is 0x01.
HelloPacket == [AtemPacket(kFlagInit, kInitSessionId, kHelloLen) EXCEPT !.payload = <<1>>]

\* An inbound datagram.
InPacket(flags, len, session, ack, resend, id, status, cmds, wire) ==
    [flags |-> flags, len |-> len, session |-> session, ack_id |-> ack,
     resend_id |-> resend, id |-> id, status |-> status, cmds |-> cmds,
     wire |-> wire]

NoPacket == InPacket(0, 0, 0, 0, 0, 0, 0, <<>>, 0)

\* The caller holds no packet.
NoOutPacket == AtemPacket(0, 0, 0)

\* ------------------------------------------------------------------------
\* Commands and the state mirror (atem.cpp:319-642).  A command is
\* [cmd, a, b]: _top carries the m/e count in a, _pin carries in a whether
\* the product name is non-empty, PrgI carries the m/e in a and the source
\* in b, KeOn carries the m/e in a and [keyer, on_air] in b.
\* ------------------------------------------------------------------------

Cmd(c, a, b) == [cmd |-> c, a |-> a, b |-> b]

\* cmd::DskAuto::PrepairCommand (atem_command.h:176-182): the two body
\* bytes at offsets 0 and 1 of the DDsA command.  The byte that is not
\* written keeps what the buffer held, junk.
PrepairCommand(ver, keyer, junk) ==
    IF ver.major <= kDskMajor /\ ver.minor <= kDskMinor
    THEN <<keyer, junk>>
    ELSE <<junk, keyer>>

\* No DskAuto has been prepared.
EncodedInit == [ver |-> [major |-> 0, minor |-> 0], keyer |-> 0, body |-> <<>>]

\* The range-for loop over the commands of a packet (atem.cpp:319-325) with
\* AtemPacket::Iterator (atem_packet.h:84-117): len is the packet length,
\* mem the command length that the two bytes at each offset inside the
\* packet declare, i the iterator's offset i_, n the number of commands the
\* loop body has run for, seen the offsets it has read a command at, bad
\* whether the command read last was malformed, done whether the loop is
\* over.  Before a packet is given the loop is over.
IterInit ==
    [len |-> kHeaderLen, mem |-> <<>>, i |-> kHeaderLen, n |-> 0, seen |-> {},
     bad |-> FALSE, done |-> TRUE]

\* begin(): the iterator at offset 12 of a packet.
IterBegin(len, mem) ==
    [len |-> len, mem |-> mem, i |-> kHeaderLen, n |-> 0, seen |-> {},
     bad |-> FALSE, done |-> FALSE]

\* One evaluation of the loop: it is over when the iterator equals end()
\* (i_ == GetLength()) or when ++i > 512; otherwise the body runs for the
\* command at i_ and operator++ adds the length that command declares.
\* stale is the length read when i_ lies outside the packet, where the
\* buffer holds whatever was there before.
IterAdvance(it, stale) ==
    IF it.i = it.len \/ it.n + 1 > kMaxCommands THEN [it EXCEPT !.done = TRUE]
    ELSE LET declared == IF it.i \in DOMAIN it.mem THEN it.mem[it.i] ELSE stale
         IN [it EXCEPT !.n = it.n + 1,
                       !.seen = it.seen \cup {it.i},
                       !.bad = declared < kCommandHeader \/ it.i + declared > it.len,
                       !.i = (it.i + declared) % kUint16Mod]

\* AtemState<uint16_t>() for usk_on_air; the mask is held as the set of
\* its set bits.
UskInit == [last_change_id_ |-> kInt16Min, state_ |-> {}]

\* MixEffect (atem_types.h:254-264): the program bus and the on-air mask
\* of the upstream keyers.
MixEffectInit == [program |-> AtemStateInit, usk_on_air |-> UskInit]

\* The set bits of the byte v.
ByteBits(v) == {b \in 0 .. (kByteBits - 1) : (v \div (2 ^ b)) % 2 = 1}

\* The mask KeOn writes (atem.cpp:544-547): state &= ~(0x1 << keyer);
\* state |= (on_air << keyer), on a uint16_t.
KeOnState(usk_on_air, keyer, on_air) ==
    LET state == IF IsValid(usk_on_air) THEN usk_on_air.state_ ELSE {}
    IN ((state \ {keyer}) \cup {b + keyer : b \in ByteBits(on_air)})
         \cap (0 .. (kUskBits - 1))

\* std::vector::resize: keep the leading elements, append default ones.
Resize(vec, n, default) ==
    [i \in 1 .. n |-> IF i <= Len(vec) THEN vec[i] ELSE default]

\* The event bit a command sets (atem.cpp:327-629).
CmdEvent(c) ==
    CASE c.cmd = "_pin" -> {kEventPid}
      [] c.cmd = "_top" -> {kEventTopology}
      [] c.cmd = "PrgI" -> {kEventSource}
      [] c.cmd = "KeOn" -> {kEventUsk}
      [] OTHER -> {}

\* The body of one case of the command switch, applied to the mirror m.
ApplyCmd(m, c, seq) ==
    CASE c.cmd = "_pin" -> [m EXCEPT !.product_id_ = c.a]
      [] c.cmd = "_top" ->
            [m EXCEPT !.topology_ = AtemStateSet(m.topology_, seq, c.a),
                      !.mix_effect_ = Resize(m.mix_effect_, c.a, MixEffectInit)]
      [] c.cmd = "PrgI" ->
            IF Len(m.mix_effect_) <= c.a THEN m
            ELSE [m EXCEPT !.mix_effect_[c.a + 1].program =
                               AtemStateSet(m.mix_effect_[c.a + 1].program, seq, c.b)]
      [] c.cmd = "KeOn" ->
            IF Len(m.mix_effect_) <= c.a \/ c.b.keyer > kMaxKeyer THEN m
            ELSE [m EXCEPT !.mix_effect_[c.a + 1].usk_on_air =
                               AtemStateSet(m.mix_effect_[c.a + 1].usk_on_air, seq,
                                            KeOnState(m.mix_effect_[c.a + 1].usk_on_air,
                                                      c.b.keyer, c.b.on_air))]
      [] OTHER -> m

\* The command loop of task_: [m, event] after the commands of a packet.
RECURSIVE ParseCommands(_, _, _, _)
ParseCommands(cmds, m, event, seq) ==
    IF cmds = <<>> THEN [m |-> m, event |-> event]
    ELSE ParseCommands(Tail(cmds), ApplyCmd(m, Head(cmds), seq),
                       event \cup CmdEvent(Head(cmds)), seq)

\* The loops that post one event per set bit, lowest bit first
\* (atem.cpp:194-199, atem.cpp:650-653).
RECURSIVE PostEvents(_, _)
PostEvents(event, packet_id) ==
    IF event = {} THEN <<>>
    ELSE LET i == CHOOSE b \in event : \A c \in event : b <= c
         IN <<[event |-> i, id |-> packet_id]>> \o PostEvents(event \ {i}, packet_id)

\* The mirror after the clearing section of Reconnect_ (atem.cpp:756-768).
MirrorInit ==
    [product_id_ |-> 0, topology_ |-> AtemStateInit, mix_effect_ |-> <<>>]

\* ------------------------------------------------------------------------
\* send_packets_ helpers
\* ------------------------------------------------------------------------

\* The lookup loop of the RESEND branch (atem.cpp:210-219): the index of
\* the first stored packet whose id is id, 0 when there is none.
RECURSIVE FindPacket(_, _, _)
FindPacket(stored, id, i) ==
    IF i > Len(stored) THEN 0
    ELSE IF stored[i].id = id THEN i
    ELSE FindPacket(stored, id, i + 1)

\* The eviction loop of the "Receive ACK" branch (atem.cpp:269-291).
RECURSIVE EvictAcked(_, _)
EvictAcked(stored, id) ==
    IF stored = <<>> THEN <<>>
    ELSE LET p == Head(stored)
         IN IF And15(p.id - id) > 32 /\ And15(id - p.id) > 32
            THEN EvictAcked(Tail(stored), id)
            ELSE IF p.id = id THEN Tail(stored)
            ELSE <<p>> \o EvictAcked(Tail(stored), id)

\* ------------------------------------------------------------------------
\* The two mutexes (atem.h:399, atem.h:404) and the places where threads
\* take and give them, without the data they protect.
\* ------------------------------------------------------------------------

\* After the constructor: the receive loop is at recv holding nothing, no
\* caller is inside SendCommands, the application does not hold the state
\* mutex and the destructor has not been called.  task is the loop's
\* position ("resend" and "ack" inside the sections under send_mutex_,
\* "parse" inside the command loop, "wait_state", "clear_state",
\* "want_send" and "clear_send" inside Reconnect_), alive whether the task
\* exists, caller the position of a caller inside SendCommands, dtor that
\* of the destructor, stored the size of send_packets_; a mutex is "free"
\* or names its owner.
LocksInit ==
    [task |-> "recv", alive |-> TRUE, send_mutex_ |-> "free",
     state_mutex_ |-> "free", caller |-> "idle", dtor |-> "none", stored |-> 0]

\* ------------------------------------------------------------------------
\* State
\* ------------------------------------------------------------------------

VARIABLES
    state_,         \* Atem::state_ (atem.h:387)
    session_id_,    \* Atem::session_id_
    local_id_,      \* Atem::local_id_
    remote_id_,     \* Atem::remote_id_
    sqeuence_,      \* Atem::sqeuence_, the SequenceCheck
    send_packets_,  \* Atem::send_packets_, oldest first
    product_id_,    \* Atem::product_id_: 0 when product_id_[0] == '\0'
    topology_,      \* Atem::topology_ (the m/e count)
    mix_effect_,    \* Atem::mix_effect_
    ack_count,      \* task_'s local ack_count
    boot_events,    \* task_'s local boot_events, as the set of set bits
    c_pc,           \* where the caller is inside SendCommands
    c_packet,       \* the packet SendCommands is building
    t_read,         \* the value the probe's ++local_id_ has read, -1 outside it
    sent,           \* packets handed to the socket by the last step, in order
    posted,         \* events posted by the last step, in order
    packet,         \* the datagram the last step received, NoPacket if none
    op,             \* the step taken last
    admitted,       \* ids for which Add returned true since the tracker was reset
    observed,       \* event kinds buffered since the last batch was posted
    silence,        \* consecutive timeouts since the last datagram
    silence_active, \* whether the engine was Active when the silence began
    probes,         \* probes sent since the last datagram
    state_mutex_,   \* Atem::state_mutex_: "free", or "user" when a user thread holds it
    t_wait,         \* the loop is inside Reconnect_, waiting for state_mutex_
    unguarded,      \* mirror fields the last step accessed without state_mutex_
    tracker,        \* a SequenceCheck used by itself, with its last Add call
    field,          \* an AtemState used by itself, with its last Set call
    iter,           \* the command loop over one packet, used by itself
    encoded,        \* a cmd::DskAuto used by itself, after PrepairCommand
    locks           \* the threads' positions around the two mutexes, by themselves

vars == <<state_, session_id_, local_id_, remote_id_, sqeuence_, send_packets_,
          product_id_, topology_, mix_effect_, ack_count, boot_events,
          c_pc, c_packet, t_read, sent, posted, packet, op,
          admitted, observed, silence, silence_active, probes,
          state_mutex_, t_wait, unguarded, tracker, field, iter, encoded, locks>>

unitVars == <<tracker, field, iter, encoded, locks>>

atemVars == <<state_, session_id_, local_id_, remote_id_, sqeuence_, send_packets_,
              product_id_, topology_, mix_effect_, ack_count, boot_events,
              c_pc, c_packet, t_read, sent, posted, packet, op,
              admitted, observed, silence, silence_active, probes,
              state_mutex_, t_wait, unguarded>>

engineVars == <<state_, session_id_, local_id_, remote_id_, sqeuence_>>
mirrorVars == <<product_id_, topology_, mix_effect_>>
callerVars == <<c_pc, c_packet>>
silenceVars == <<silence, silence_active, probes>>
mutexVars == <<state_mutex_, t_wait>>

\* enum ConnectionState (atem.h:381-386).
kConnected == "kConnected"
kInitializing == "kInitializing"
kActive == "kActive"

\* Atem::Connected (atem.h:189).
Connected == state_ = kActive

Mirror ==
    [product_id_ |-> product_id_, topology_ |-> topology_,
     mix_effect_ |-> mix_effect_]

\* ------------------------------------------------------------------------
\* Snapshot queries (atem_state.cpp)
\* ------------------------------------------------------------------------

\* Atem::GetProgramInput: whether it returns true for m/e me.
GetProgramInputValid(me) ==
    /\ Len(mix_effect_) > me
    /\ IsValid(mix_effect_[me + 1].program)

\* Atem::GetUskOnAir: whether it returns true, and the state it then gives.
GetUskOnAirValid(me, keyer) ==
    /\ ~(Len(mix_effect_) <= me \/ keyer > kMaxKeyer)
    /\ IsValid(mix_effect_[me + 1].usk_on_air)

GetUskOnAir(me, keyer) == keyer \in mix_effect_[me + 1].usk_on_air.state_

\* Atem::GetTopology: whether it returns true.
GetTopologyValid == IsValid(topology_)

\* ------------------------------------------------------------------------
\* Reconnect_ (atem.cpp:744-789)
\* ------------------------------------------------------------------------

\* A reset that leaves send_packets_ as it is.
ReconnectKeepsPackets ==
    LET was_connected == product_id_ # 0
    IN /\ state_' = kConnected
       /\ local_id_' = 0
       /\ remote_id_' = 0
       /\ session_id_' = kInitSessionId
       /\ sqeuence_' = SequenceCheckInit
       /\ product_id_' = MirrorInit.product_id_
       /\ topology_' = MirrorInit.topology_
       /\ mix_effect_' = MirrorInit.mix_effect_
       /\ UNCHANGED send_packets_
       /\ posted' = IF was_connected
                    THEN <<[event |-> kEventPid, id |-> 0]>> ELSE <<>>
       /\ sent' = <<HelloPacket>>

Reconnect_ ==
    LET was_connected == product_id_ # 0
    IN /\ state_' = kConnected
       /\ local_id_' = 0
       /\ remote_id_' = 0
       /\ session_id_' = kInitSessionId
       /\ sqeuence_' = SequenceCheckInit
       /\ product_id_' = MirrorInit.product_id_
       /\ topology_' = MirrorInit.topology_
       /\ mix_effect_' = MirrorInit.mix_effect_
       /\ send_packets_' = <<>>
       /\ posted' = IF was_connected
                    THEN <<[event |-> kEventPid, id |-> 0]>> ELSE <<>>
       /\ sent' = <<HelloPacket>>

\* The part of Reconnect_ before it takes state_mutex_ (atem.cpp:745-753).
ReconnectBegin ==
    /\ state_' = kConnected
    /\ local_id_' = 0
    /\ remote_id_' = 0
    /\ session_id_' = kInitSessionId
    /\ sqeuence_' = SequenceCheckInit
    /\ UNCHANGED <<mirrorVars, send_packets_>>
    /\ posted' = <<>>
    /\ sent' = <<>>

\* The state after the constructor (atem.cpp:10-72): the task is created and
\* Reconnect_ has sent the first INIT request.
AtemInit ==
    /\ state_ = kConnected
    /\ session_id_ = kInitSessionId
    /\ local_id_ = 0
    /\ remote_id_ = 0
    /\ sqeuence_ = SequenceCheckInit
    /\ send_packets_ = <<>>
    /\ product_id_ = MirrorInit.product_id_
    /\ topology_ = MirrorInit.topology_
    /\ mix_effect_ = MirrorInit.mix_effect_
    /\ ack_count = 0
    /\ boot_events = {}
    /\ c_pc = "idle"
    /\ c_packet = NoOutPacket
    /\ t_read = -1
    /\ sent = <<HelloPacket>>
    /\ posted = <<>>
    /\ packet = NoPacket
    /\ op = "Init"
    /\ admitted = {}
    /\ observed = {}
    /\ silence = 0
    /\ silence_active = FALSE
    /\ probes = 0
    /\ state_mutex_ = "free"
    /\ t_wait = FALSE
    /\ unguarded = {}

Init ==
    /\ AtemInit
    /\ tracker = TrackerInit
    /\ field = FieldInit
    /\ iter = IterInit
    /\ encoded = EncodedInit
    /\ locks = LocksInit

\* ------------------------------------------------------------------------
\* The receive loop: a timeout of recv (atem.cpp:101-127)
\* ------------------------------------------------------------------------

\* The keepalive probe (atem.cpp:119-122).
ProbePacket(id) ==
    [AtemPacket(kFlagsProbe, session_id_, kHeaderLen) EXCEPT
        !.id = id, !.ack_id = remote_id_]

\* recv timed out.  With ack_count above the limit the loop resets the
\* connection; otherwise, when Active, it starts the probe: ++local_id_ is
\* a read and a write of a counter that callers write too, so the step
\* ends after the read; when not Active the iteration ends here.
TimeoutWithin(ids) ==
    /\ t_read = -1
    /\ ~t_wait
    /\ UNCHANGED unitVars
    /\ packet' = NoPacket
    /\ UNCHANGED <<boot_events, callerVars, observed, state_mutex_>>
    /\ IF ack_count > kAckCountLimit
       THEN /\ ack_count' = kIntMax
            \* was_connected reads product_id_ before the mutex is taken;
            \* xSemaphoreTake(state_mutex_, portMAX_DELAY) waits while a
            \* user thread holds it (atem.cpp:745, 756)
            /\ unguarded' = {"product_id_"}
            /\ IF state_mutex_ = "free"
               THEN Reconnect_ /\ op' = "Reconnect" /\ t_wait' = FALSE
               ELSE ReconnectBegin /\ op' = "ReconnectWait" /\ t_wait' = TRUE
            /\ admitted' = {}
            /\ silence' = IF silence <= kAckCountLimit + 1 THEN silence + 1 ELSE silence
            /\ silence_active' = IF silence = 0 THEN Connected ELSE silence_active
            /\ UNCHANGED <<probes, t_read>>
       ELSE /\ posted' = <<>>
            /\ sent' = <<>>
            /\ unguarded' = {}
            /\ UNCHANGED <<engineVars, send_packets_, mirrorVars, admitted, probes,
                           t_wait>>
            /\ IF Connected
               THEN \* the model stops a session whose probes exhaust the ids
                    /\ local_id_ < ids
                    /\ t_read' = local_id_
                    /\ op' = "TimeoutProbe"
                    /\ UNCHANGED <<ack_count, silence, silence_active>>
               ELSE /\ ack_count' = ack_count + 1
                    /\ op' = "Timeout"
                    /\ silence' = IF silence <= kAckCountLimit + 1
                                  THEN silence + 1 ELSE silence
                    /\ silence_active' = IF silence = 0 THEN FALSE ELSE silence_active
                    /\ UNCHANGED t_read

Timeout == TimeoutWithin(MaxLocalId + kAckCountLimit + 1)

\* The rest of Reconnect_ once state_mutex_ is free again: the mirror and
\* send_packets_ are cleared, the product-id event is posted and the INIT
\* request is sent (atem.cpp:756-788).  No thread writes product_id_ while
\* the loop waits, so was_connected is what it was at the start.
ReconnectResume ==
    /\ t_wait
    /\ state_mutex_ = "free"
    /\ t_wait' = FALSE
    /\ product_id_' = MirrorInit.product_id_
    /\ topology_' = MirrorInit.topology_
    /\ mix_effect_' = MirrorInit.mix_effect_
    /\ send_packets_' = <<>>
    /\ posted' = IF product_id_ # 0 THEN <<[event |-> kEventPid, id |-> 0]>> ELSE <<>>
    /\ sent' = <<HelloPacket>>
    /\ packet' = NoPacket
    /\ op' = "Reconnect"
    /\ unguarded' = {}
    /\ UNCHANGED <<engineVars, ack_count, boot_events, callerVars, t_read,
                   admitted, observed, silenceVars, state_mutex_, unitVars>>

\* A user thread takes state_mutex_ (Atem::GetStateMutex, atem.h:126) to
\* read the mirror, and gives it back.
UserLock ==
    /\ state_mutex_ = "free"
    /\ state_mutex_' = "user"
    /\ op' = "UserLock"
    /\ sent' = <<>>
    /\ posted' = <<>>
    /\ packet' = NoPacket
    /\ unguarded' = {}
    /\ UNCHANGED <<engineVars, send_packets_, mirrorVars, ack_count, boot_events,
                   callerVars, t_read, admitted, observed, silenceVars, t_wait,
                   unitVars>>

UserUnlock ==
    /\ state_mutex_ = "user"
    /\ state_mutex_' = "free"
    /\ op' = "UserUnlock"
    /\ sent' = <<>>
    /\ posted' = <<>>
    /\ packet' = NoPacket
    /\ unguarded' = {}
    /\ UNCHANGED <<engineVars, send_packets_, mirrorVars, ack_count, boot_events,
                   callerVars, t_read, admitted, observed, silenceVars, t_wait,
                   unitVars>>

\* The rest of a timeout iteration that sends a probe: ++local_id_ writes
\* the counter back, the probe is sent, ack_count++ (atem.cpp:119-125).
ProbeSend ==
    /\ t_read # -1
    /\ UNCHANGED unitVars
    /\ UNCHANGED mutexVars
    /\ unguarded' = {}
    /\ t_read' = -1
    /\ packet' = NoPacket
    /\ local_id_' = (t_read + 1) % kUint16Mod
    /\ sent' = <<ProbePacket(local_id_')>>
    /\ posted' = <<>>
    /\ ack_count' = ack_count + 1
    /\ probes' = probes + 1
    /\ silence' = IF silence <= kAckCountLimit + 1 THEN silence + 1 ELSE silence
    /\ silence_active' = IF silence = 0 THEN TRUE ELSE silence_active
    /\ op' = "Timeout"
    /\ UNCHANGED <<state_, session_id_, remote_id_, sqeuence_, send_packets_,
                   mirrorVars, boot_events, callerVars, admitted, observed>>

\* ------------------------------------------------------------------------
\* The receive loop: one datagram (atem.cpp:129-656).  ub is the outcome of
\* the out-of-range shift inside SequenceCheck::Add, should it occur.
\* ------------------------------------------------------------------------

\* The ingress checks: the length check (atem.cpp:146-150) and the session
\* check (atem.cpp:157-163).
PassesIngressAnySession(pkt) ==
    pkt.wire = pkt.len

PassesIngress(pkt) ==
    /\ pkt.wire = pkt.len
    /\ ~(state_ = kActive /\ pkt.session # session_id_)

\* An INIT branch that takes the status "no connection slot" as accepted
\* too.
InitStatusAcceptedOrNoSlot(pkt) == pkt.status \in {kInitAccepted, kInitNoSlot}

\* Whether the INIT branch takes the reply as accepted: init_status == 0x2
\* (atem.cpp:168-170).
InitStatusAccepted(pkt) == pkt.status = kInitAccepted

\* The synthesized answer to a RESEND request (atem.cpp:226-230).
GapFiller(pkt) ==
    [AtemPacket(kFlagAckRequest, pkt.session, kHeaderLen) EXCEPT !.id = pkt.resend_id]

\* The id the RESEND branch looks up in send_packets_ (atem.cpp:210).
ResendLookupId(pkt) == pkt.id

\* An ACK whose resend request sets 0x4 instead of 0x8.
AckPacketRetransmissionFlag(pkt, rid, missing_id) ==
    LET p == [AtemPacket(kFlagAckResponse, pkt.session, kHeaderLen) EXCEPT !.ack_id = rid]
    IN IF missing_id >= 0
       THEN [p EXCEPT !.flags = SetFlag(p.flags, kFlagRetransmission),
                      !.resend_id = missing_id, !.id = 0,
                      !.unknown = kUnknownResend]
       ELSE p

\* The ACK of the "Send ACK" branch (atem.cpp:238-256) for remote id rid and
\* the tracker's missing id.
AckPacket(pkt, rid, missing_id) ==
    LET p == [AtemPacket(kFlagAckResponse, pkt.session, kHeaderLen) EXCEPT !.ack_id = rid]
    IN IF missing_id >= 0
       THEN [p EXCEPT !.flags = SetFlag(p.flags, kFlagResend),
                      !.resend_id = missing_id, !.id = 0,
                      !.unknown = kUnknownResend]
       ELSE p

\* A "Send ACK" branch that answers in Active only.
ShouldSendAckActiveOnly(state, missing_id) == state = kActive

\* Whether the "Send ACK" branch sends its packet (atem.cpp:258).
ShouldSendAck(state, missing_id) == state = kActive \/ missing_id >= 0

\* A handshake that keeps the session id of the INIT request.
AdoptedSessionKept(pkt) == session_id_

\* The session id the engine takes over when the handshake completes
\* (atem.cpp:189).
AdoptedSession(pkt) == pkt.session

\* boot_events after an iteration that posted the boot batch
\* (atem.cpp:192-199): the batch is posted, the mask is left as it is.
BootEventsAfterBatch(events) == events

Recv(pkt, ub) ==
    /\ t_read = -1
    /\ ~t_wait
    /\ UNCHANGED unitVars
    /\ UNCHANGED mutexVars
    /\ unguarded' = {}
    /\ packet' = pkt
    /\ ack_count' = 0
    /\ silence' = 0
    /\ silence_active' = FALSE
    /\ probes' = 0
    /\ UNCHANGED <<callerVars, t_read>>
    /\ IF ~PassesIngress(pkt)
       THEN /\ op' = "RecvDrop"
            /\ sent' = <<>>
            /\ posted' = <<>>
            /\ UNCHANGED <<engineVars, send_packets_, mirrorVars, boot_events,
                           admitted, observed>>
       ELSE
         LET \* INIT packet (atem.cpp:165-183)
             accepted == /\ HasFlag(pkt.flags, kFlagInit)
                         /\ state_ # kActive
                         /\ InitStatusAccepted(pkt)
             state1 == IF accepted THEN kInitializing ELSE state_
             local1 == IF accepted THEN 0 ELSE local_id_
             remote1 == IF accepted THEN 0 ELSE remote_id_
             sent1 == IF accepted
                      THEN <<AtemPacket(kFlagAckResponse, pkt.session, kHeaderLen)>>
                      ELSE <<>>
             \* INIT packets complete (atem.cpp:185-200)
             complete == /\ state1 = kInitializing
                         /\ HasFlag(pkt.flags, kFlagAckRequest)
                         /\ pkt.len = kHeaderLen
             state2 == IF complete THEN kActive ELSE state1
             session2 == IF complete THEN AdoptedSession(pkt) ELSE session_id_
             \* RESEND request (atem.cpp:202-231)
             resend == HasFlag(pkt.flags, kFlagResend) /\ state2 = kActive
             found == FindPacket(send_packets_, ResendLookupId(pkt), 1)
             sent3 == IF ~resend THEN sent1
                      ELSE IF found # 0 THEN Append(sent1, send_packets_[found])
                      ELSE Append(sent1, GapFiller(pkt))
             \* Send ACK (atem.cpp:233-263)
             ackreq == HasFlag(pkt.flags, kFlagAckRequest)
             added == Add(sqeuence_, pkt.id, ub)
             seq4 == IF ackreq THEN added.seq ELSE sqeuence_
             remote4 == IF ackreq THEN pkt.id ELSE remote1
             dup == ackreq /\ ~added.ok
             missing_id == GetMissing(seq4)
             sent4 == IF ackreq /\ ShouldSendAck(state2, missing_id)
                      THEN Append(sent3, AckPacket(pkt, remote4, missing_id))
                      ELSE sent3
             \* Receive ACK (atem.cpp:266-297)
             gotack == /\ ~dup
                       /\ HasFlag(pkt.flags, kFlagAckResponse)
                       /\ state2 = kActive
             \* Parse packet (atem.cpp:300-644); the loop gives up after
             \* 150 ms when a user thread holds state_mutex_ (atem.cpp:312)
             parse == /\ ~dup
                      /\ pkt.len > kHeaderLen
                      /\ ~HasFlag(pkt.flags, kFlagInit)
                      /\ state_mutex_ = "free"
             parsed == ParseCommands(pkt.cmds, Mirror, {}, seq4)
             event == IF parse THEN parsed.event ELSE {}
             m6 == IF parse THEN parsed.m ELSE Mirror
             \* Send events (atem.cpp:646-656)
             post == parse /\ event # {} /\ state2 = kActive
         IN /\ op' = IF complete THEN "RecvComplete"
                     ELSE IF accepted THEN "RecvInit"
                     ELSE "Recv"
            /\ state_' = state2
            /\ session_id_' = session2
            /\ local_id_' = local1
            /\ remote_id_' = remote4
            /\ sqeuence_' = seq4
            /\ send_packets_' = IF gotack THEN EvictAcked(send_packets_, pkt.ack_id)
                                ELSE send_packets_
            /\ product_id_' = m6.product_id_
            /\ topology_' = m6.topology_
            /\ mix_effect_' = m6.mix_effect_
            /\ sent' = sent4
            /\ posted' = IF complete THEN PostEvents(boot_events, 1)
                         ELSE IF post THEN PostEvents(event, pkt.id)
                         ELSE <<>>
            /\ boot_events' = IF complete THEN BootEventsAfterBatch(boot_events)
                              ELSE IF parse /\ ~post THEN boot_events \cup event
                              ELSE boot_events
            /\ admitted' = IF ackreq /\ added.ok THEN admitted \cup {pkt.id}
                           ELSE admitted
            /\ observed' = IF complete THEN {}
                           ELSE IF parse /\ ~post THEN observed \cup event
                           ELSE observed

\* ------------------------------------------------------------------------
\* SendCommands (atem.cpp:664-723), run by a caller thread.  cmds is the
\* list handed to it.
\* ------------------------------------------------------------------------

\* A null entry of the list handed to SendCommands.
NullCmd == "nullptr"

\* The commands the loops of SendCommands do not skip (atem.cpp:668-669,
\* atem.cpp:683-684).
NonNull(cmds) == SelectSeq(cmds, LAMBDA c : c # NullCmd)

\* A length that counts the null entries too.
PacketLengthCountingNull(cmds) == kHeaderLen + 12 * Len(cmds)

\* length after the counting loop (atem.cpp:666-672); every command of the
\* model is 12 bytes long.
PacketLength(cmds) == kHeaderLen + 12 * Len(NonNull(cmds))

\* The length check and the construction of the packet (atem.cpp:666-679);
\* the step ends after ++local_id_ has read the counter.  ids and held are
\* the model's bounds on the local id and on the packets held.
SendCommandsWithin(cmds, ids, held) ==
    /\ c_pc = "idle"
    /\ UNCHANGED unitVars
    /\ UNCHANGED mutexVars
    /\ unguarded' = {}
    /\ sent' = <<>>
    /\ posted' = <<>>
    /\ packet' = NoPacket
    /\ UNCHANGED <<engineVars, send_packets_, mirrorVars, ack_count, boot_events,
                   admitted, observed, silenceVars, t_read>>
    /\ IF PacketLength(cmds) = kHeaderLen
       THEN /\ op' = "SendCommandsInvalidArg"
            /\ UNCHANGED callerVars
       ELSE /\ local_id_ < ids
            /\ Len(send_packets_) < held
            /\ op' = "SendCommands"
            /\ c_pc' = "inc"
            /\ c_packet' = [AtemPacket(kFlagAckRequest, session_id_,
                                       PacketLength(cmds))
                               EXCEPT !.id = local_id_, !.payload = NonNull(cmds)]

SendCommands(cmds) == SendCommandsWithin(cmds, MaxLocalId, MaxHeld)

\* ++local_id_ writes the counter back, SetId, the copy of the commands and
\* SendPacket_ (atem.cpp:679-700); ok is whether send() took the packet.
SendCommandsTransmit(ok) ==
    /\ c_pc = "inc"
    /\ UNCHANGED unitVars
    /\ UNCHANGED mutexVars
    \* the copy loop hands version_.Get() to PrepairCommand without taking
    \* state_mutex_ (atem.cpp:684)
    /\ unguarded' = {"version_"}
    /\ local_id_' = (c_packet.id + 1) % kUint16Mod
    /\ posted' = <<>>
    /\ packet' = NoPacket
    /\ UNCHANGED <<state_, session_id_, remote_id_, sqeuence_, send_packets_,
                   mirrorVars, ack_count, boot_events, admitted, observed,
                   silenceVars, t_read>>
    /\ IF ok
       THEN /\ c_packet' = [c_packet EXCEPT !.id = local_id_']
            /\ sent' = <<c_packet'>>
            /\ c_pc' = "sent"
            /\ op' = "SendCommandsTransmit"
       ELSE /\ c_packet' = NoOutPacket
            /\ sent' = <<>>
            /\ c_pc' = "idle"
            /\ op' = "SendCommandsFail"

\* A store that never removes a packet.
StorePacketNoCap(stored, p) == Append(stored, p)

\* send_packets_ after the store of SendCommands (atem.cpp:704-712).
StorePacket(stored, p) ==
    IF Len(stored) >= kMaxStored
    THEN Append(SubSeq(stored, 1, Len(stored) - 1), p)
    ELSE Append(stored, p)

\* The end of SendCommands (atem.cpp:702-718); got is whether send_mutex_
\* was obtained within 10 ms.  Without it the packet is deleted and the
\* call returns ESP_ERR_TIMEOUT.
SendCommandsStore(got) ==
    /\ c_pc = "sent"
    /\ UNCHANGED unitVars
    /\ UNCHANGED mutexVars
    /\ unguarded' = {}
    /\ send_packets_' = IF got THEN StorePacket(send_packets_, c_packet)
                        ELSE send_packets_
    /\ c_pc' = "idle"
    /\ c_packet' = NoOutPacket
    /\ op' = IF got THEN "SendCommandsOk" ELSE "SendCommandsTimeout"
    /\ sent' = <<>>
    /\ posted' = <<>>
    /\ packet' = NoPacket
    /\ UNCHANGED <<engineVars, mirrorVars, ack_count, boot_events, admitted,
                   observed, silenceVars, t_read>>

\* ------------------------------------------------------------------------
\* Inputs: the datagrams the peer may send and the lists callers may pass
\* ------------------------------------------------------------------------

\* Session ids the peer assigns (0x5555 and 0x1234).
PeerSessions == {21845, 4660}

\* The session id of the peer's regular traffic, the larger of the two.
MainSession == CHOOSE s \in PeerSessions : \A t \in PeerSessions : t <= s

\* Local ids a RESEND request or an ACK of the peer may name.
TxIds == 1 .. 2

\* Command lists callers pass to SendCommands.
CallerLists == { <<>>, <<NullCmd>>, <<"DCut">>, <<NullCmd, "DCut">> }

\* The peer's answer to the INIT request, with status byte st.
HelloReply(s, st) ==
    InPacket(kFlagInit, kHelloLen, s, 0, 0, 0, st, <<>>, kHelloLen)

\* A packet of header length that asks for an acknowledgement.
AckRequest(s, i) ==
    InPacket(kFlagAckRequest, kHeaderLen, s, 0, 0, i, 0, <<>>, kHeaderLen)

\* A packet that carries the commands c.
DataPacket(i, c) ==
    InPacket(kFlagAckRequest, kHeaderLen + 12 * Len(c), MainSession, 0, 0, i, 0,
             c, kHeaderLen + 12 * Len(c))

\* A request to send the packet r again, flagged f, with i as its own id.
ResendRequest(f, r, i) ==
    InPacket(f, kHeaderLen, MainSession, 0, r, i, 0, <<>>, kHeaderLen)

\* The peer's acknowledgement of the local id a.
AckResponse(a) ==
    InPacket(kFlagAckResponse, kHeaderLen, MainSession, a, 0, 0, 0, <<>>,
             kHeaderLen)

\* A datagram shorter than its header says.
TruncatedPacket ==
    InPacket(kFlagAckRequest, kHeaderLen + 12, MainSession, 0, 0, 1, 0,
             <<Cmd("PrgI", 0, 2)>>, kHeaderLen)

\* Traffic of a peer that answers callers: one handshake, one data packet
\* of three commands, resend requests flagged 0x8 and 0x4, acknowledgements.
CallerInputs ==
    { HelloReply(MainSession, kInitAccepted), AckRequest(MainSession, 1),
      DataPacket(2, <<Cmd("_pin", 1, 0), Cmd("_top", 1, 0), Cmd("PrgI", 0, 2)>>) }
        \cup { ResendRequest(f, r, i) :
                 f \in {kFlagResend, kFlagRetransmission}, r \in TxIds, i \in 0 .. 1 }
        \cup { AckResponse(a) : a \in TxIds }

\* Traffic around the handshake: both sessions, both INIT statuses, the
\* commands that raise events, a truncated datagram.
SessionInputs ==
    { HelloReply(s, st) : s \in PeerSessions, st \in {kInitAccepted, kInitNoSlot} }
        \cup { AckRequest(s, 1) : s \in PeerSessions }
        \cup { DataPacket(2, c) : c \in { <<Cmd("_pin", 1, 0)>>, <<Cmd("_top", 1, 0)>>,
                                          <<Cmd("PrgI", 0, 2)>> } }
        \cup { TruncatedPacket }

\* Status bytes of a rejected INIT: no connection slot, and two values the
\* code has no name for.
RejectedStatuses == {kInitNoSlot, 4, 0}

\* The traffic around the handshake with every rejected status.
RetryInputs ==
    SessionInputs \cup { HelloReply(s, st) : s \in PeerSessions, st \in RejectedStatuses }

\* Remote ids of the tracker traffic: in order, one skipped, and one more
\* than a window ahead.
TrackerIds == {1, 3, 34}

\* Traffic that exercises the sequence tracker.
TrackerInputs ==
    { HelloReply(MainSession, kInitAccepted), AckRequest(MainSession, 1) }
        \cup { DataPacket(1, <<Cmd("_top", 1, 0)>>) }
        \cup { DataPacket(i, <<Cmd("PrgI", 0, b)>>) : i \in TrackerIds \ {1}, b \in 2 .. 3 }

\* Traffic of a peer that acknowledges the first packet only, again and
\* again.
BufferInputs ==
    { HelloReply(MainSession, kInitAccepted), AckRequest(MainSession, 1),
      AckResponse(1) }

\* Ids handed to a SequenceCheck by itself: behind its initial offset, at
\* it, inside the window of 32 ahead of it, just past the window, and the
\* largest id.
AddIds == {0, 1, 2, 33, 34, kInt16Max}

\* Ids on both sides of the wrap from 0x7FFF to 0.
AddWrapIds == {kInt16Max, 0, 1, 2}

\* Packet ids of the writes to one mirror field, on both sides of the wrap,
\* and the values written.
FieldIds == {kInt16Max - 1, kInt16Max, 0, 1, 2}
FieldValues == 1 .. MaxFieldValue

\* Traffic that changes the topology: _top commands with one and two m/e
\* in packets that may arrive out of order, and program inputs for both
\* m/e.
TopologyInputs ==
    { HelloReply(MainSession, kInitAccepted), AckRequest(MainSession, 1) }
        \cup { DataPacket(i, <<Cmd("_top", n, 0)>>) : i \in 2 .. 3, n \in 1 .. 2 }
        \cup { DataPacket(4, <<Cmd("PrgI", me, 2)>>) : me \in 0 .. 1 }

\* Packets handed to the command loop: 20 bytes long, so with room for one
\* command of 8 bytes at offset 12, whose header declares the length 0, 8
\* or 16; and the lengths stale buffer content can declare.
IterPackets ==
    { IterBegin(kHeaderLen + kCommandHeader, (kHeaderLen :> d)) : d \in {0, 8, 16} }
StaleLens == {0, 8}

\* Protocol versions around 2.27, keyers, and what an unwritten byte of a
\* command buffer may hold.
Versions ==
    [major : 0 .. MaxMajor, minor : {0, kDskMinor - 1, kDskMinor, kDskMinor + 1, kDskMinor + 2}]
Keyers == 0 .. MaxKeyer
JunkBytes == {0, MaxKeyer}

\* Traffic that switches upstream keyers: a topology of two m/e, then KeOn
\* for both m/e in packets that may arrive out of order, with the first
\* and the last keyer and one past it, and on_air bytes 0, 1 and 2.
KeyerOnAir == {0, 1, 2}
KeyerInputs ==
    { DataPacket(2, <<Cmd("_top", 2, 0)>>) }
        \cup { DataPacket(i, <<Cmd("KeOn", me, [keyer |-> k, on_air |-> v])>>) :
                 i \in 3 .. 4, me \in 0 .. 1, k \in {0, kMaxKeyer, kMaxKeyer + 1},
                 v \in KeyerOnAir }

\* Acknowledgements of the first local ids of a session.
OrderInputs == { AckResponse(a) : a \in 1 .. MaxOrderId }

\* Acknowledgements of the ids around 0x7FFF.
CounterInputs ==
    { AckResponse(a) : a \in kInt16Max - WrapLead + 1 .. kInt16Max + WrapPast }

\* ------------------------------------------------------------------------
\* Specifications
\* ------------------------------------------------------------------------

\* The receive loop and a caller thread.
Next ==
    \/ Timeout
    \/ ProbeSend
    \/ \E pkt \in CallerInputs, ub \in ShiftOutcomes : Recv(pkt, ub)
    \/ \E cmds \in CallerLists : SendCommands(cmds)
    \/ \E ok \in BOOLEAN : SendCommandsTransmit(ok)
    \/ \E got \in BOOLEAN : SendCommandsStore(got)

Spec == Init /\ [][Next]_vars

\* The receive loop and a caller thread that fills send_packets_ beyond its
\* capacity: the caller sends while Connected() holds, the peer is never
\* silent, the socket takes every packet and send_mutex_ is free.
NextBuffer ==
    \/ \E pkt \in BufferInputs, ub \in ShiftOutcomes : Recv(pkt, ub)
    \/ Connected /\ SendCommandsWithin(<<"DCut">>, MaxBufferId, kMaxStored + 1)
    \/ SendCommandsTransmit(TRUE)
    \/ SendCommandsStore(TRUE)

SpecBuffer == Init /\ [][NextBuffer]_vars

\* An Active session: the handshake is complete (HELLO accepted, the
\* peer's ACK_REQUEST 1 received, atem.cpp:165-200) and the local id
\* counter stands at id.
ActiveSession(id) ==
    /\ state_ = kActive
    /\ session_id_ = MainSession
    /\ local_id_ = id
    /\ remote_id_ = 1
    /\ sqeuence_ = Add(SequenceCheckInit, 1, "wrap").seq
    /\ send_packets_ = <<>>
    /\ product_id_ = MirrorInit.product_id_
    /\ topology_ = MirrorInit.topology_
    /\ mix_effect_ = MirrorInit.mix_effect_
    /\ ack_count = 0
    /\ boot_events = {}
    /\ c_pc = "idle"
    /\ c_packet = NoOutPacket
    /\ t_read = -1
    /\ sent = <<>>
    /\ posted = <<>>
    /\ packet = NoPacket
    /\ op = "Init"
    /\ admitted = {1}
    /\ observed = {}
    /\ silence = 0
    /\ silence_active = FALSE
    /\ probes = 0
    /\ state_mutex_ = "free"
    /\ t_wait = FALSE
    /\ unguarded = {}
    /\ tracker = TrackerInit
    /\ field = FieldInit
    /\ iter = IterInit
    /\ encoded = EncodedInit
    /\ locks = LocksInit

\* A session that has been Active for long: local_id_, a uint16_t that
\* only ++ changes while the session lasts (atem.h:389, atem.cpp:120, 679),
\* is WrapLead short of 0x7FFF.
InitCounter == ActiveSession(kInt16Max - WrapLead)

\* The receive loop and a caller thread in that session; the peer answers
\* before the loop counts five silent timeouts, so the session lasts.
NextCounter ==
    \/ ack_count < kAckCountLimit /\ TimeoutWithin(kInt16Max + WrapPast)
    \/ ProbeSend
    \/ \E pkt \in CounterInputs, ub \in ShiftOutcomes : Recv(pkt, ub)
    \/ SendCommandsWithin(<<"DCut">>, kInt16Max + WrapPast, MaxHeld)
    \/ \E ok \in BOOLEAN : SendCommandsTransmit(ok)
    \/ \E got \in BOOLEAN : SendCommandsStore(got)

SpecCounter == InitCounter /\ [][NextCounter]_vars

\* A session that has just become Active, as Spec reaches it.
InitOrder == ActiveSession(0)

\* The receive loop and a caller thread that makes one call after another
\* in that session, which lasts: the peer acknowledges and is never silent
\* for five timeouts.
NextOrder ==
    \/ ack_count < kAckCountLimit /\ TimeoutWithin(MaxOrderId)
    \/ ProbeSend
    \/ \E pkt \in OrderInputs, ub \in ShiftOutcomes : Recv(pkt, ub)
    \/ SendCommandsWithin(<<"DCut">>, MaxOrderId, MaxOrderHeld)
    \/ \E ok \in BOOLEAN : SendCommandsTransmit(ok)
    \/ \E got \in BOOLEAN : SendCommandsStore(got)

SpecOrder == InitOrder /\ [][NextOrder]_vars

\* One call of SequenceCheck::Add (sequence_check.h:29-51) on the
\* SequenceCheck used by itself.
TrackerAdd(id, ub) ==
    LET r == Add(tracker.seq, id, ub)
    IN /\ tracker' = [seq |-> r.seq, id |-> id, ret |-> r.ok,
                      fresh |-> id \notin tracker.added,
                      pair |-> (id = tracker.id /\ tracker.fresh),
                      added |-> tracker.added \cup {id},
                      arg |-> -1, newer |-> FALSE]
       /\ UNCHANGED <<atemVars, field, iter, encoded, locks>>

\* One call of SequenceCheck::IsNewer (sequence_check.h:97) on the
\* SequenceCheck used by itself.
TrackerIsNewer(id) ==
    /\ tracker' = [tracker EXCEPT !.arg = id, !.newer = IsNewer(tracker.seq, id)]
    /\ UNCHANGED <<atemVars, field, iter, encoded, locks>>

\* Calls of Add on a SequenceCheck, from its construction on.
NextAdd == \E id \in AddIds, ub \in ShiftOutcomes : TrackerAdd(id, ub)

SpecAdd == Init /\ [][NextAdd]_vars

\* Calls of Add and of IsNewer on a SequenceCheck, from its construction on.
NextNewer ==
    \/ \E id \in AddIds, ub \in ShiftOutcomes : TrackerAdd(id, ub)
    \/ \E id \in AddIds : TrackerIsNewer(id)

SpecNewer == Init /\ [][NextNewer]_vars

\* One call of AtemState::Set (atem_state.h:83-98) on the AtemState used by
\* itself, made as the command loop makes it: with the tracker whose last
\* id is the id of the packet that carries the command.
FieldSet(id, value) ==
    /\ field' = [st |-> AtemStateSet(field.st, [SequenceCheckInit EXCEPT !.last_id_ = id], value),
                 id |-> id, value |-> value, before |-> field.st]
    /\ UNCHANGED <<atemVars, tracker, iter, encoded, locks>>

\* Writes to one mirror field, from its construction on.
NextField == \E id \in FieldIds, value \in FieldValues : FieldSet(id, value)

SpecField == Init /\ [][NextField]_vars

\* The receive loop alone, with traffic that changes the topology.
NextTopology ==
    \/ Timeout
    \/ ProbeSend
    \/ \E pkt \in TopologyInputs, ub \in ShiftOutcomes : Recv(pkt, ub)

SpecTopology == Init /\ [][NextTopology]_vars

\* The receive loop alone in a session that has just become Active, with
\* traffic that switches upstream keyers and a peer that is never silent.
InitKeyer == ActiveSession(0)

NextKeyer == \E pkt \in KeyerInputs, ub \in ShiftOutcomes : Recv(pkt, ub)

SpecKeyer == InitKeyer /\ [][NextKeyer]_vars

\* DskAuto(keyer) prepared for sending under protocol version ver, as the
\* copy loop of SendCommands does (atem.cpp:684-685).
EncodeDskAuto(ver, keyer, junk) ==
    /\ encoded' = [ver |-> ver, keyer |-> keyer, body |-> PrepairCommand(ver, keyer, junk)]
    /\ UNCHANGED <<atemVars, tracker, field, iter, locks>>

NextEncode ==
    \E ver \in Versions, keyer \in Keyers, junk \in JunkBytes :
        EncodeDskAuto(ver, keyer, junk)

SpecEncode == Init /\ [][NextEncode]_vars

\* The receive loop, a caller thread and a user thread that locks the
\* mirror for as long as it likes.
NextMutex ==
    \/ Timeout
    \/ ProbeSend
    \/ ReconnectResume
    \/ \E pkt \in CallerInputs, ub \in ShiftOutcomes : Recv(pkt, ub)
    \/ \E cmds \in CallerLists : SendCommands(cmds)
    \/ \E ok \in BOOLEAN : SendCommandsTransmit(ok)
    \/ \E got \in BOOLEAN : SendCommandsStore(got)
    \/ UserLock
    \/ UserUnlock

SpecMutex == Init /\ [][NextMutex]_vars

\* The command loop by itself over one packet.
InitIter ==
    /\ AtemInit
    /\ tracker = TrackerInit
    /\ field = FieldInit
    /\ encoded = EncodedInit
    /\ locks = LocksInit
    /\ iter \in IterPackets

\* One evaluation of the command loop.
IterStep(stale) ==
    /\ ~iter.done
    /\ iter.i <= MaxIterOffset
    /\ iter' = IterAdvance(iter, stale)
    /\ UNCHANGED <<atemVars, tracker, field, encoded, locks>>

NextIter == \E stale \in StaleLens : IterStep(stale)

SpecIter == InitIter /\ [][NextIter]_vars

\* A SequenceCheck that has received every id up to 0x7FFE in order: each
\* Add moved the window by one and set bit 0, so received_ is all ones.
InitAddWrap ==
    /\ AtemInit
    /\ field = FieldInit
    /\ iter = IterInit
    /\ encoded = EncodedInit
    /\ locks = LocksInit
    /\ tracker = [TrackerInit EXCEPT
                    !.seq = [offset_ |-> kInt16Max - 1, last_id_ |-> kInt16Max - 1,
                             received_ |-> AllBits]]

\* Calls of Add on that SequenceCheck with the ids around the wrap.
NextAddWrap == \E id \in AddWrapIds, ub \in ShiftOutcomes : TrackerAdd(id, ub)

SpecAddWrap == InitAddWrap /\ [][NextAddWrap]_vars

\* The other variables while only the mutexes are followed.
LocksOnly == UNCHANGED <<atemVars, tracker, field, iter, encoded>>

\* The loop takes send_mutex_ for the lookup of a RESEND request or for the
\* eviction after an ACK (atem.cpp:209, atem.cpp:268); the wait is limited
\* to 50 ms, after which the section is skipped.
LoopTakeSend(section) ==
    /\ locks.alive /\ locks.task = "recv"
    /\ locks.send_mutex_ = "free"
    /\ locks' = [locks EXCEPT !.task = section, !.send_mutex_ = "task"]
    /\ LocksOnly

\* The loop leaves that section (atem.cpp:221, atem.cpp:293); the eviction
\* may have removed a packet.
LoopGiveSend(evicted) ==
    /\ locks.alive /\ locks.task \in {"resend", "ack"}
    /\ evicted <= locks.stored
    /\ evicted > 0 => locks.task = "ack"
    /\ locks' = [locks EXCEPT !.task = "recv", !.send_mutex_ = "free",
                              !.stored = locks.stored - evicted]
    /\ LocksOnly

\* The loop takes state_mutex_ for the command loop (atem.cpp:312), waiting
\* at most 150 ms, and gives it back after the last command (atem.cpp:644).
LoopTakeState ==
    /\ locks.alive /\ locks.task = "recv"
    /\ locks.state_mutex_ = "free"
    /\ locks' = [locks EXCEPT !.task = "parse", !.state_mutex_ = "task"]
    /\ LocksOnly

LoopGiveState ==
    /\ locks.alive /\ locks.task = "parse"
    /\ locks' = [locks EXCEPT !.task = "recv", !.state_mutex_ = "free"]
    /\ LocksOnly

\* The timeout path calls Reconnect_, which comes to
\* xSemaphoreTake(state_mutex_, portMAX_DELAY) (atem.cpp:756).
ReconnectWantState ==
    /\ locks.alive /\ locks.task = "recv"
    /\ locks' = [locks EXCEPT !.task = "wait_state"]
    /\ LocksOnly

ReconnectTakeState ==
    /\ locks.alive /\ locks.task = "wait_state"
    /\ locks.state_mutex_ = "free"
    /\ locks' = [locks EXCEPT !.task = "clear_state", !.state_mutex_ = "task"]
    /\ LocksOnly

\* A Reconnect_ that goes on to send_mutex_ without giving state_mutex_.
ReconnectKeepState ==
    /\ locks.alive /\ locks.task = "clear_state"
    /\ locks' = [locks EXCEPT !.task = "want_send"]
    /\ LocksOnly

\* Reconnect_ gives state_mutex_ after clearing the mirror (atem.cpp:768)
\* and comes to xSemaphoreTake(send_mutex_, portMAX_DELAY) (atem.cpp:772).
ReconnectGiveState ==
    /\ locks.alive /\ locks.task = "clear_state"
    /\ locks' = [locks EXCEPT !.task = "want_send", !.state_mutex_ = "free"]
    /\ LocksOnly

ReconnectTakeSend ==
    /\ locks.alive /\ locks.task = "want_send"
    /\ locks.send_mutex_ = "free"
    /\ locks' = [locks EXCEPT !.task = "clear_send", !.send_mutex_ = "task"]
    /\ LocksOnly

\* Reconnect_ clears send_packets_ and gives send_mutex_ (atem.cpp:773-775).
ReconnectGiveSend ==
    /\ locks.alive /\ locks.task = "clear_send"
    /\ locks' = [locks EXCEPT !.task = "recv", !.send_mutex_ = "free", !.stored = 0]
    /\ LocksOnly

\* A caller inside SendCommands comes to xSemaphoreTake(send_mutex_, 10 ms)
\* (atem.cpp:704), obtains the mutex or gives up (atem.cpp:715-717), stores
\* the packet and gives the mutex back (atem.cpp:705-712).
CallerWantSend ==
    /\ locks.dtor = "none" /\ locks.caller = "idle"
    /\ locks.stored < MaxLockStored
    /\ locks' = [locks EXCEPT !.caller = "want_send"]
    /\ LocksOnly

CallerTakeSend ==
    /\ locks.caller = "want_send"
    /\ locks.send_mutex_ = "free"
    /\ locks' = [locks EXCEPT !.caller = "store", !.send_mutex_ = "caller"]
    /\ LocksOnly

CallerTimeout ==
    /\ locks.caller = "want_send"
    /\ locks.send_mutex_ # "free"
    /\ locks' = [locks EXCEPT !.caller = "idle"]
    /\ LocksOnly

CallerGiveSend ==
    /\ locks.caller = "store"
    /\ locks' = [locks EXCEPT !.caller = "idle", !.send_mutex_ = "free",
                              !.stored = locks.stored + 1]
    /\ LocksOnly

\* The application takes the state mutex (GetStateMutex, atem.h:126), as
\* the example does around its reads and its SendCommands call
\* (main.cpp:68-88), and gives it back once that call has returned.
AppTakeState ==
    /\ locks.dtor = "none"
    /\ locks.state_mutex_ = "free"
    /\ locks' = [locks EXCEPT !.state_mutex_ = "user"]
    /\ LocksOnly

AppGiveState ==
    /\ locks.state_mutex_ = "user"
    /\ locks.caller = "idle"
    /\ locks' = [locks EXCEPT !.state_mutex_ = "free"]
    /\ LocksOnly

\* ~Atem (atem.cpp:74-86), called when no application thread is inside the
\* object: vTaskDelete(task_handle_) removes the task wherever it is, then
\* xSemaphoreTake(send_mutex_, portMAX_DELAY), the packets are deleted and
\* the mutex is given.
DtorDeleteTask ==
    /\ locks.dtor = "none"
    /\ locks.caller = "idle" /\ locks.state_mutex_ # "user"
    /\ locks' = [locks EXCEPT !.alive = FALSE, !.dtor = "want_send"]
    /\ LocksOnly

DtorTakeSend ==
    /\ locks.dtor = "want_send"
    /\ locks.send_mutex_ = "free"
    /\ locks' = [locks EXCEPT !.dtor = "clear", !.send_mutex_ = "dtor"]
    /\ LocksOnly

DtorGiveSend ==
    /\ locks.dtor = "clear"
    /\ locks' = [locks EXCEPT !.dtor = "done", !.send_mutex_ = "free", !.stored = 0]
    /\ LocksOnly

\* The receive loop, an application thread that locks the mirror and calls
\* SendCommands, and the destructor.
NextLocks ==
    \/ \E section \in {"resend", "ack"} : LoopTakeSend(section)
    \/ \E evicted \in 0 .. 1 : LoopGiveSend(evicted)
    \/ LoopTakeState
    \/ LoopGiveState
    \/ ReconnectWantState
    \/ ReconnectTakeState
    \/ ReconnectGiveState
    \/ ReconnectTakeSend
    \/ ReconnectGiveSend
    \/ CallerWantSend
    \/ CallerTakeSend
    \/ CallerTimeout
    \/ CallerGiveSend
    \/ AppTakeState
    \/ AppGiveState
    \/ DtorDeleteTask
    \/ DtorTakeSend
    \/ DtorGiveSend

SpecLocks == Init /\ [][NextLocks]_vars

\* The receive loop alone, with the traffic around the handshake.
NextSession ==
    \/ Timeout
    \/ ProbeSend
    \/ \E pkt \in SessionInputs, ub \in ShiftOutcomes : Recv(pkt, ub)

SpecSession == Init /\ [][NextSession]_vars

\* The receive loop alone, with the traffic around the handshake and every
\* rejected status.  recv returns after the socket timeout of one second
\* when nothing arrives (SO_RCVTIMEO, atem.cpp:44-50), so an iteration
\* that is waiting for a datagram ends in a timeout when the peer is
\* silent, and the loop finishes a probe it has begun.
NextRetry ==
    \/ Timeout
    \/ ProbeSend
    \/ \E pkt \in RetryInputs, ub \in ShiftOutcomes : Recv(pkt, ub)

SpecRetry == Init /\ [][NextRetry]_vars /\ WF_vars(Timeout) /\ WF_vars(ProbeSend)

\* The receive loop alone, with the tracker traffic.
NextTracker ==
    \/ Timeout
    \/ ProbeSend
    \/ \E pkt \in TrackerInputs, ub \in ShiftOutcomes : Recv(pkt, ub)

SpecTracker == Init /\ [][NextTracker]_vars

\* ------------------------------------------------------------------------
\* Properties
\* ------------------------------------------------------------------------

\* The step received the datagram packet' and it passed the ingress checks.
Received == packet' # NoPacket /\ PassesIngress(packet')

\* The step was a receive timeout.
TimedOut == packet' = NoPacket /\ op' \in {"Timeout", "Reconnect"}

IsHelloAccepted(pkt) == HasFlag(pkt.flags, kFlagInit) /\ pkt.status = kInitAccepted

IsAckRequest(pkt) == HasFlag(pkt.flags, kFlagAckRequest)

\* The event kinds of a sequence of posted events.
Kinds(events) == {events[i].event : i \in 1 .. Len(events)}

\* The posted events of kind ProductId.
ProductIdEvents(events) == SelectSeq(events, LAMBDA e : e.event = kEventPid)

\* The packets of out that carry the ACK_RESPONSE flag.
AckResponsesOf(out) == SelectSeq(out, LAMBDA p : HasFlag(p.flags, kFlagAckResponse))

\* The resend requests for the id m among the packets of out.
ResendRequestsFor(out, m) ==
    SelectSeq(out, LAMBDA p : HasFlag(p.flags, kFlagResend) /\ p.resend_id = m)

\* Every query of the model's mirror fields answers "not valid".
MirrorNotValid ==
    /\ ~GetTopologyValid
    /\ \A me \in 0 .. 1 : ~GetProgramInputValid(me)
    /\ product_id_ = 0

\* C1: with the INIT request sent, a HELLO-flagged packet of status 0x02
\* takes the engine from HelloSent (kConnected) to Initializing, and an
\* ACK_REQUEST packet of length 12 received in Initializing takes it to
\* Active with session_id_ equal to the session id of that packet.
C1_Handshake ==
    [][ /\ (state_ = kConnected /\ Received /\ IsHelloAccepted(packet'))
             => state_' = kInitializing
        /\ (state_ = kInitializing /\ Received /\ IsAckRequest(packet')
               /\ packet'.len = kHeaderLen)
             => (state_' = kActive /\ session_id_' = packet'.session) ]_vars

\* C1 witness: the handshake completed on a packet of the peer's session.
C1_Witness ==
    /\ op = "RecvComplete"
    /\ state_ = kActive
    /\ IsAckRequest(packet) /\ packet.len = kHeaderLen
    /\ session_id_ = packet.session
    /\ session_id_ # kInitSessionId

\* C2: the batch posted at a transition to Active holds exactly the event
\* kinds observed while the engine was not Active since the previous batch,
\* each once, and none left over from an earlier session.
C2_BufferedEvents ==
    [][ (state_ # kActive /\ state_' = kActive)
          => (Kinds(posted') = observed /\ Len(posted') = Cardinality(observed)) ]_vars

\* C3: starting from Active, after 4 consecutive receive timeouts the engine
\* has sent exactly 4 probes and has reset: not connected, mirror reset,
\* send_packets_ empty, HELLO sent; no fifth probe is ever sent.
C3_LivenessReset ==
    /\ (silence_active /\ silence = 4)
         => /\ probes = 4
            /\ ~Connected
            /\ MirrorNotValid
            /\ send_packets_ = <<>>
            /\ sent = <<HelloPacket>>
    /\ silence_active => probes <= 4

C5_DisconnectNotification ==
    [][ /\ (state_ = kActive /\ state_' # kActive)
             => Len(ProductIdEvents(posted')) = 1
        /\ (op = "Reconnect" /\ TimedOut)
             => ProductIdEvents(posted') = <<>> ]_vars

\* C6 as stated: every ACK_REQUEST packet (without the INIT flag) that
\* passes the ingress checks is answered, in every connection state, by exactly one ACK_RESPONSE packet
\* with ack_id equal to the packet's id and own id 0, and local_id_ stays.
C6_AcknowledgementEveryState ==
    [][ (Received /\ IsAckRequest(packet') /\ ~HasFlag(packet'.flags, kFlagInit))
          => LET acks == AckResponsesOf(sent')
             IN /\ Len(acks) = 1
                /\ acks[1].ack_id = packet'.id
                /\ acks[1].id = 0
                /\ local_id_' = local_id_ ]_vars

\* C6 amended: such a packet is answered by exactly one ACK_RESPONSE packet
\* (ack_id the packet's id, own id 0) when the engine is Active after
\* handling it or the tracker then reports a missing id; otherwise no
\* ACK_RESPONSE packet is sent.  local_id_ stays in both cases.
C6_Acknowledgement ==
    [][ (Received /\ IsAckRequest(packet') /\ ~HasFlag(packet'.flags, kFlagInit))
          => LET acks == AckResponsesOf(sent')
             IN /\ local_id_' = local_id_
                /\ IF state_' = kActive \/ GetMissing(sqeuence_') >= 0
                   THEN /\ Len(acks) = 1
                        /\ acks[1].ack_id = packet'.id
                        /\ acks[1].id = 0
                   ELSE acks = <<>> ]_vars

\* C6 witness: an ACK_REQUEST packet received outside Active was answered
\* because the tracker reported a missing id.
C6_Witness ==
    /\ op = "Recv"
    /\ IsAckRequest(packet)
    /\ state_ # kActive
    /\ GetMissing(sqeuence_) >= 0
    /\ Len(AckResponsesOf(sent)) = 1
    /\ sent[1].ack_id = packet.id

\* C7: an ACK_REQUEST packet received in Active whose id the tracker has
\* already admitted is acknowledged again, changes no mirror field and no
\* last_change_id_, and posts no event.
C7_DuplicateSuppression ==
    [][ (state_ = kActive /\ Received /\ IsAckRequest(packet')
           /\ packet'.id \in admitted)
          => /\ Len(AckResponsesOf(sent')) = 1
             /\ Mirror' = Mirror
             /\ posted' = <<>> ]_vars

\* C8 as stated: when the tracker reports the missing id m after an
\* ACK_REQUEST packet, a packet is sent with flags 16 | 4, ack_id m - 1
\* (mod 2^15) and resend_id m.
C8_GapRequestFormatDataModel ==
    [][ (Received /\ IsAckRequest(packet') /\ GetMissing(sqeuence_') >= 0)
          => \E i \in 1 .. Len(sent') :
                /\ sent'[i].flags = kFlagAckResponse + kFlagRetransmission
                /\ sent'[i].ack_id = And15(GetMissing(sqeuence_') - 1)
                /\ sent'[i].resend_id = GetMissing(sqeuence_') ]_vars

\* C8 amended: when the tracker reports the missing id m after an
\* ACK_REQUEST packet, a packet is sent with flags 0x10 | 0x08, ack_id the
\* id of the packet just received, resend_id m, own id 0 and 0x100 in the
\* unknown field.
C8_GapRequestFormat ==
    [][ (Received /\ IsAckRequest(packet') /\ GetMissing(sqeuence_') >= 0)
          => \E i \in 1 .. Len(sent') :
                /\ sent'[i].flags = kFlagAckResponse + kFlagResend
                /\ sent'[i].ack_id = packet'.id
                /\ sent'[i].resend_id = GetMissing(sqeuence_')
                /\ sent'[i].id = 0
                /\ sent'[i].unknown = kUnknownResend ]_vars

\* C8 witness: after ids 1 and 3 the tracker misses 2 and the request for
\* it went out with ack_id 3.
C8_Witness ==
    /\ op = "Recv"
    /\ IsAckRequest(packet)
    /\ packet.id = 3
    /\ GetMissing(sqeuence_) = 2
    /\ sent # <<>>
    /\ sent[Len(sent)].flags = kFlagAckResponse + kFlagResend
    /\ sent[Len(sent)].ack_id = 3
    /\ sent[Len(sent)].resend_id = 2

\* C9: while the id m stays missing, a packet received after m was first
\* reported missing triggers no further resend request for m.
C9_GapRequestRate ==
    [][ (Received /\ GetMissing(sqeuence_) >= 0
           /\ GetMissing(sqeuence_') = GetMissing(sqeuence_))
          => ResendRequestsFor(sent', GetMissing(sqeuence_)) = <<>> ]_vars

\* C10: in Active, a packet with the RESEND flag (the flag the engine
\* tests, 0x8) and resend_id r, with a packet of id r held in send_packets_,
\* makes the engine send exactly that stored packet and nothing else,
\* whatever the id field of the request.
C10_Retransmission ==
    [][ (state_ = kActive /\ Received /\ HasFlag(packet'.flags, kFlagResend)
           /\ FindPacket(send_packets_, packet'.resend_id, 1) # 0)
          => sent' = <<send_packets_[FindPacket(send_packets_, packet'.resend_id, 1)]>> ]_vars

\* C11: in Active, a RESEND request (flag 0x8) for an id r of which
\* send_packets_ holds no packet makes the engine send exactly one packet
\* of 12 bytes with flag ACK_REQUEST and id r, and leaves send_packets_ and
\* local_id_ as they are.
C11_GapFiller ==
    [][ (state_ = kActive /\ Received /\ HasFlag(packet'.flags, kFlagResend)
           /\ FindPacket(send_packets_, packet'.resend_id, 1) = 0)
          => /\ Len(sent') = 1
             /\ sent'[1].flags = kFlagAckRequest
             /\ sent'[1].len = kHeaderLen
             /\ sent'[1].id = packet'.resend_id
             /\ send_packets_' = send_packets_
             /\ local_id_' = local_id_ ]_vars

\* C12: send_packets_ never holds more than 32 packets.
C12_SendBufferBound == Len(send_packets_) <= kMaxStored

\* C12 witness: a packet was stored while send_packets_ was full, and it is
\* full still.
C12_Witness ==
    /\ op = "SendCommandsOk"
    /\ Len(send_packets_) = kMaxStored
    /\ send_packets_[kMaxStored].id > kMaxStored

\* C13: a store into a full send_packets_ removes the packet stored
\* earliest; the other 31 and the new packet remain in insertion order.
C13_EvictionOrder ==
    [][ (c_pc = "sent" /\ op' = "SendCommandsOk"
           /\ Len(send_packets_) = kMaxStored)
          => send_packets_' = Append(Tail(send_packets_), c_packet) ]_vars

\* Whether the id q is more than 32 ids behind p in the 15-bit id order.
FarBehind(q, p) == And15(p - q) > 32 /\ And15(p - q) <= kInt16Max \div 2

\* C14: in Active, an ACK_RESPONSE with ack_id p removes from send_packets_
\* the packet with id p and every packet more than 32 ids behind p, and
\* keeps every other packet in its place.
C14_AckEviction ==
    [][ (state_ = kActive /\ Received /\ HasFlag(packet'.flags, kFlagAckResponse))
          => send_packets_' =
               SelectSeq(send_packets_,
                         LAMBDA q : q.id # packet'.ack_id
                                      /\ ~FarBehind(q.id, packet'.ack_id)) ]_vars

\* C15: a SendCommands call with an empty list or a list of null commands
\* only returns the invalid-argument error at once, transmits nothing and
\* leaves local_id_ and send_packets_ as they are.
C15_InvalidArgument ==
    [][ \A cmds \in CallerLists :
          (NonNull(cmds) = <<>> /\ SendCommands(cmds))
            => /\ op' = "SendCommandsInvalidArg"
               /\ c_pc' = "idle"
               /\ sent' = <<>>
               /\ local_id_' = local_id_
               /\ send_packets_' = send_packets_ ]_vars

\* C15 witness: the error was returned in a session that has sent a packet
\* and holds it.
C15_Witness ==
    /\ op = "SendCommandsInvalidArg"
    /\ local_id_ > 0
    /\ send_packets_ # <<>>

\* C16: a SendCommands call with a non-null command builds a packet whose
\* payload is the non-null commands in list order; what it transmits is
\* exactly that packet, with flags ACK_REQUEST, id one above the local id
\* and the engine's session id of that moment; a call that returns success
\* has stored the packet, and a call that returns an error has left
\* send_packets_ as it was.
C16_SendSuccess ==
    [][ /\ \A cmds \in CallerLists :
             (NonNull(cmds) # <<>> /\ SendCommands(cmds))
               => c_packet'.payload = NonNull(cmds)
        /\ op' = "SendCommandsTransmit"
             => /\ sent' = <<c_packet'>>
                /\ c_packet'.flags = kFlagAckRequest
                /\ c_packet'.payload = c_packet.payload
                /\ c_packet'.id = local_id_ + 1
                /\ c_packet'.session = session_id_
        /\ op' = "SendCommandsOk"
             => /\ send_packets_' # <<>>
                /\ send_packets_'[Len(send_packets_')] = c_packet
        /\ op' \in {"SendCommandsInvalidArg", "SendCommandsFail", "SendCommandsTimeout"}
             => send_packets_' = send_packets_ ]_vars

\* C17: every local id assigned to an outbound packet, by SendCommands or
\* to a keepalive probe, lies in 0 .. 0x7FFF, and the id assigned after
\* 0x7FFF is 0.
C17_LocalIdRange ==
    [][ /\ op' = "SendCommandsTransmit"
             => /\ sent'[1].id \in 0 .. kInt16Max
                /\ c_packet.id = kInt16Max => sent'[1].id = 0
        /\ (t_read # -1 /\ t_read' = -1)
             => /\ sent'[1].id \in 0 .. kInt16Max
                /\ t_read = kInt16Max => sent'[1].id = 0 ]_vars

\* second follows first in the 15-bit wrapping order of ids.
Later15(first, second) ==
    And15(second - first) \in 1 .. kInt16Max \div 2

\* C18: in a session that stays Active, a successful SendCommands call of
\* the caller has a local id greater, in 15-bit wrapping order, than the id
\* of every packet its earlier successful calls stored (the calls of one
\* caller follow one another, so its packets reach the socket in call
\* order).
C18_SendOrdering ==
    [][ (state_ = kActive /\ op' = "SendCommandsOk")
          => \A i \in 1 .. Len(send_packets_) :
                Later15(send_packets_[i].id, c_packet.id) ]_vars

\* C19: session_id_ changes only in a reset or in the step from
\* Initializing to Active, so never while the engine stays Active; a
\* well-formed packet received in Active with another session id is
\* dropped: nothing is sent for it, and remote_id_, the tracker, the mirror
\* and send_packets_ stay as they are.
C19_SessionBinding ==
    [][ /\ session_id_' # session_id_
             => \/ op' = "Reconnect"
                \/ op' = "RecvComplete" /\ state_ # kActive /\ state_' = kActive
        /\ (state_ = kActive /\ state_' = kActive) => session_id_' = session_id_
        /\ (state_ = kActive /\ packet' # NoPacket /\ packet'.session # session_id_)
             => /\ sent' = <<>>
                /\ remote_id_' = remote_id_
                /\ sqeuence_' = sqeuence_
                /\ Mirror' = Mirror
                /\ send_packets_' = send_packets_
                /\ state_' = kActive
                /\ session_id_' = session_id_ ]_vars

\* An ACK_REQUEST of another session has been dropped in Active.
C19_Witness ==
    /\ op = "RecvDrop"
    /\ state_ = kActive
    /\ packet.wire = packet.len
    /\ packet.session # session_id_
    /\ IsAckRequest(packet)

\* C20: on a SequenceCheck, fresh or reached by earlier Adds, Add of an id
\* that was never added before returns true, and the Add of the same id
\* right after it returns false.
C20_TrackerDuplicate ==
    /\ tracker.fresh => tracker.ret
    /\ tracker.pair => ~tracker.ret

\* The oldest id of the window of 32 ids ending at the largest id of S that
\* is not in S, -1 when there is none.  Ids below 1, the offset a tracker
\* is constructed with, are taken as received.
OldestMissing(S) ==
    LET m == CHOOSE x \in S : \A y \in S : y <= x
        gaps == {i \in m - (kRecvLen - 1) .. m : i >= 1 /\ i \notin S}
    IN IF gaps = {} THEN -1
       ELSE CHOOSE g \in gaps : \A h \in gaps : g <= h

\* C21: after the ids of a non-empty set S have been fed to a fresh tracker
\* in any order, GetLastId is the id added last and GetMissing is the
\* oldest id of the window [m - 31, m] that is not in S, m being the
\* largest id of S, or -1 when there is none.
C21_GapReport ==
    tracker.added # {}
      => /\ GetLastId(tracker.seq) = tracker.id
         /\ GetMissing(tracker.seq) = OldestMissing(tracker.added)

\* C22: the window arithmetic of Add is modulo 2^15.  On a tracker that has
\* received every id up to 0x7FFE, Add(0x7FFF) and the Add(0) after it
\* both return true and GetMissing then reports none; and in every call of
\* Add the bit tested and set after the window move is (anchor - id) mod
\* 2^15 and is below 32.
C22_TrackerWrap ==
    [][ \A id \in AddWrapIds, ub \in ShiftOutcomes :
          TrackerAdd(id, ub)
            => /\ BitIndex(id, tracker'.seq.offset_) = And15(tracker'.seq.offset_ - id)
               /\ BitIndex(id, tracker'.seq.offset_) < kRecvLen
               /\ (tracker.added = {kInt16Max} /\ tracker.fresh /\ id = 0)
                    => /\ tracker.ret
                       /\ tracker'.ret
                       /\ GetMissing(tracker'.seq) = -1 ]_vars

\* C23: IsNewer(x) returns true exactly when the last id L is newer than x
\* in the 15-bit wrapping order, for L and x in 0 .. 0x7FFF.
C23_IsNewer ==
    tracker.arg # -1
      => (tracker.newer <=> Later15(tracker.arg, GetLastId(tracker.seq)))

\* C24: a write with packet id p replaces the value and last_change_id of a
\* mirror field exactly when the field is unset or p is equal to or newer
\* than the stored last_change_id in the 15-bit wrapping order, also when
\* the ids cross the wrap from 0x7FFF to 0.
C24_LastWriterWins ==
    field.id # -1
      => LET replaces == \/ ~IsValid(field.before)
                         \/ field.id = field.before.last_change_id_
                         \/ Later15(field.before.last_change_id_, field.id)
         IN field.st = IF replaces
                       THEN [last_change_id_ |-> field.id, state_ |-> field.value]
                       ELSE field.before

\* C25: a write that carries packet id 0 replaces the value of a mirror
\* field whatever its last_change_id is.
C25_IdZeroAlwaysNewer ==
    field.id = 0 => field.st = [last_change_id_ |-> 0, state_ |-> field.value]

\* The packet received by the step carries only _top commands.
OnlyTop(pkt) ==
    /\ pkt # NoPacket
    /\ pkt.cmds # <<>>
    /\ \A i \in 1 .. Len(pkt.cmds) : pkt.cmds[i].cmd = "_top"

\* C26: after a _top command is applied the length of mix_effect_ is the
\* m/e count of the recorded topology, every m/e that is in range before
\* and after keeps its fields, and no query for an m/e at or above the
\* count returns a value.
C26_TopologyChange ==
    [][ /\ GetTopologyValid' => Len(mix_effect_') = topology_'.state_
        /\ OnlyTop(packet')
             => \A i \in 1 .. Len(mix_effect_) :
                   i <= Len(mix_effect_') => mix_effect_'[i] = mix_effect_[i]
        /\ GetTopologyValid'
             => \A me \in 0 .. 2 : me >= topology_'.state_ => ~GetProgramInputValid(me)' ]_vars

\* C27: a command whose declared length is below 8 or exceeds the bytes
\* remaining in the packet ends the iteration, so the loop body does not
\* run again after it, and no offset outside [12, packet length) is read
\* as a command.
C27_MalformedCommands ==
    [][ /\ iter.bad => iter'.n = iter.n
        /\ \A o \in iter'.seen : o >= kHeaderLen /\ o < iter'.len ]_vars

\* C28: DskAuto(keyer) prepared under protocol version (major, minor)
\* carries the keyer at body offset 0 when the version, compared major
\* first and then minor, is at most 2.27, and at body offset 1 when it is
\* at least 2.28.
C28_DskAutoVersion ==
    encoded.body # <<>>
      => LET v == encoded.ver
             atMost == v.major < 2 \/ (v.major = 2 /\ v.minor <= 27)
         IN IF atMost THEN encoded.body[1] = encoded.keyer
            ELSE encoded.body[2] = encoded.keyer

\* C29: every read or write of a mirror field that the library performs
\* happens while the accessing thread holds state_mutex_.
C29_MirrorMutex == unguarded = {}

\* C30: the receive loop never waits without a time limit for state_mutex_
\* while a user thread holds it, so it keeps running whatever the user
\* thread does.
C30_LoopProgress == ~(t_wait /\ state_mutex_ = "user")

\* C33: a keepalive probe (flags 0x11) is sent only on a receive timeout
\* while the engine is Active; it is 12 bytes long, its ack_id is the
\* current remote_id_ and its own id is 0, and sending it neither advances
\* local_id_ nor adds an entry to send_packets_.
C33_KeepaliveProbe ==
    [][ \A i \in 1 .. Len(sent') :
          sent'[i].flags = kFlagsProbe
            => /\ packet' = NoPacket
               /\ state_ = kActive
               /\ sent'[i].len = kHeaderLen
               /\ sent'[i].ack_id = remote_id_
               /\ sent'[i].id = 0
               /\ local_id_' = local_id_
               /\ send_packets_' = send_packets_ ]_vars

\* C33 without the two clauses on the local id: a probe is sent only on a
\* receive timeout in Active, is 12 bytes long, acknowledges remote_id_ and
\* leaves send_packets_ as it is.
C33_KeepaliveProbeShape ==
    [][ \A i \in 1 .. Len(sent') :
          sent'[i].flags = kFlagsProbe
            => /\ packet' = NoPacket
               /\ state_ = kActive
               /\ sent'[i].len = kHeaderLen
               /\ sent'[i].ack_id = remote_id_
               /\ send_packets_' = send_packets_ ]_vars

\* C34: in every tracker state reached from the initial state by Add calls
\* with ids in 0 .. 0x7FFF, whenever Add has just returned true, bit 0 of
\* received_ (the bit of the anchor id) is set.
C34_WindowAnchor ==
    (tracker.id # -1 /\ tracker.ret) => 0 \in tracker.seq.received_

\* C34 for the calls whose shift 1 << offset is defined (offset below 32).
C34_WindowAnchorDefinedShift ==
    (tracker.id # -1 /\ tracker.ret /\ BitIndex(tracker.id, tracker.seq.offset_) < kRecvLen)
      => 0 \in tracker.seq.received_

\* C37: no two distinct outbound packets of one session are assigned the
\* same non-zero local id: a packet that SendCommands or the keepalive
\* probe has just built and sent does not carry the id of a packet of the
\* same session that an earlier call stored in send_packets_.
C37_UniqueLocalIds ==
    [][ op' \in {"SendCommandsTransmit", "Timeout"}
          => \A i \in 1 .. Len(sent'), j \in 1 .. Len(send_packets_) :
                (sent'[i].id # 0 /\ send_packets_[j].session = sent'[i].session)
                  => send_packets_[j].id # sent'[i].id ]_vars

\* C39: every inbound packet that the engine acknowledged and the tracker
\* admitted as new has its commands applied to the mirror, also when a user
\* thread holds state_mutex_ at the moment the packet is processed.
C39_NoAcknowledgedLoss ==
    [][ ( /\ Received
          /\ IsAckRequest(packet')
          /\ packet'.id \in admitted' \ admitted
          /\ AckResponsesOf(sent') # <<>>
          /\ packet'.cmds # <<>> )
          => Mirror' = ParseCommands(packet'.cmds, Mirror, {}, sqeuence_').m ]_vars

\* C40: in every reachable state every packet held in send_packets_ carries
\* the engine's current session id, and send_packets_ is empty whenever the
\* engine is not Active.
C40_SendBufferSession ==
    /\ \A i \in 1 .. Len(send_packets_) : send_packets_[i].session = session_id_
    /\ state_ # kActive => send_packets_ = <<>>

\* The command c of a packet is skipped on the mirror m: its m/e is out of
\* range, or its write is rejected as older than the stored value.
CmdSkipped(m, c, seq) ==
    /\ c.cmd = "PrgI"
    /\ \/ Len(m.mix_effect_) <= c.a
       \/ IsNewer(seq, m.mix_effect_[c.a + 1].program.last_change_id_)

\* C36: in Active an event is posted for an inbound packet only if a
\* command of the packet changed a mirror field of that kind: a packet
\* whose one command is skipped, because its m/e is out of range or its
\* write is rejected as older, leaves the mirror as it is and posts no
\* event.
C36_EventsReflectChanges ==
    [][ ( /\ Received
          /\ state_' = kActive
          /\ op' = "Recv"
          /\ Len(packet'.cmds) = 1
          /\ CmdSkipped(Mirror, packet'.cmds[1], sqeuence_') )
          => /\ Mirror' = Mirror
             /\ posted' = <<>> ]_vars

\* C36 without the clause on events: a skipped command leaves the mirror
\* as it is.
C36_SkippedKeepsMirror ==
    [][ ( /\ Received
          /\ state_' = kActive
          /\ op' = "Recv"
          /\ Len(packet'.cmds) = 1
          /\ CmdSkipped(Mirror, packet'.cmds[1], sqeuence_') )
          => Mirror' = Mirror ]_vars

\* The mask a query of usk_on_air works on: 0 while the field is unset.
UskMask(me_state) ==
    IF IsValid(me_state.usk_on_air) THEN me_state.usk_on_air.state_ ELSE {}

\* C35: applying KeOn(me, keyer = k, on_air = v) with me in range, k <= 15
\* and any byte v changes at most bit k of that m/e's usk_on_air mask, to 1
\* iff v is non-zero when the write is accepted; the other bits of the mask
\* and the masks of the other m/e's are unchanged.
C35_KeOnFrame ==
    [][ ( /\ Received
          /\ op' = "Recv"
          /\ Len(packet'.cmds) = 1
          /\ packet'.cmds[1].cmd = "KeOn"
          /\ packet'.cmds[1].a < Len(mix_effect_)
          /\ packet'.cmds[1].b.keyer <= kMaxKeyer )
          => LET me == packet'.cmds[1].a + 1
                 k == packet'.cmds[1].b.keyer
                 v == packet'.cmds[1].b.on_air
             IN /\ Len(mix_effect_') = Len(mix_effect_)
                /\ \A o \in 1 .. Len(mix_effect_) :
                      o # me => mix_effect_'[o] = mix_effect_[o]
                /\ \A b \in (0 .. (kUskBits - 1)) \ {k} :
                      b \in UskMask(mix_effect_'[me]) <=> b \in UskMask(mix_effect_[me])
                /\ mix_effect_'[me].usk_on_air # mix_effect_[me].usk_on_air
                     => (k \in UskMask(mix_effect_'[me]) <=> v # 0) ]_vars

\* C35 for the on_air bytes 0 and 1.
C35_KeOnFrameBoolean ==
    [][ ( /\ Received
          /\ op' = "Recv"
          /\ Len(packet'.cmds) = 1
          /\ packet'.cmds[1].cmd = "KeOn"
          /\ packet'.cmds[1].a < Len(mix_effect_)
          /\ packet'.cmds[1].b.keyer <= kMaxKeyer
          /\ packet'.cmds[1].b.on_air \in {0, 1} )
          => LET me == packet'.cmds[1].a + 1
                 k == packet'.cmds[1].b.keyer
                 v == packet'.cmds[1].b.on_air
             IN /\ Len(mix_effect_') = Len(mix_effect_)
                /\ \A o \in 1 .. Len(mix_effect_) :
                      o # me => mix_effect_'[o] = mix_effect_[o]
                /\ \A b \in (0 .. (kUskBits - 1)) \ {k} :
                      b \in UskMask(mix_effect_'[me]) <=> b \in UskMask(mix_effect_[me])
                /\ mix_effect_'[me].usk_on_air # mix_effect_[me].usk_on_air
                     => (k \in UskMask(mix_effect_'[me]) <=> v # 0) ]_vars

\* The datagram is an INIT reply whose status byte is not 0x02.
IsHelloRejected(pkt) == HasFlag(pkt.flags, kFlagInit) /\ pkt.status # kInitAccepted

\* C32: a HELLO reply whose status byte is not 0x02 leaves state_,
\* session_id_, local_id_, remote_id_ and the mirror unchanged and causes
\* no packet to be sent; and if from some point on the peer stays silent
\* and the engine is not Active (no accepted reply has completed the
\* handshake), the engine sends the INIT request again and again.
C32_RejectedHandshake ==
    /\ [][ (packet' # NoPacket /\ IsHelloRejected(packet'))
             => /\ state_' = state_
                /\ session_id_' = session_id_
                /\ local_id_' = local_id_
                /\ remote_id_' = remote_id_
                /\ Mirror' = Mirror
                /\ sent' = <<>> ]_vars
    /\ (<>[](packet = NoPacket /\ state_ # kActive)) => []<>(sent = <<HelloPacket>>)

\* C32 witness: the peer has answered the INIT request with a status the
\* code has no name for; the engine sent nothing and waits in kConnected.
C32_Witness ==
    /\ op = "Recv"
    /\ IsHelloRejected(packet)
    /\ packet.status \notin {kInitAccepted, kInitNoSlot}
    /\ state_ = kConnected
    /\ session_id_ = kInitSessionId
    /\ sent = <<>>

\* C31: destroying the engine, also while the receive loop is inside a
\* section that holds send_mutex_ or state_mutex_, always completes (the
\* destructor never waits for a mutex that the deleted task owns), and
\* afterwards the loop is stopped, send_packets_ is empty and both mutexes
\* are free.
C31_DestructionTerminates ==
    /\ ~(locks.dtor = "want_send" /\ locks.send_mutex_ = "task")
    /\ locks.dtor = "done"
         => /\ ~locks.alive
            /\ locks.stored = 0
            /\ locks.send_mutex_ = "free"
            /\ locks.state_mutex_ = "free"

\* C31 for a destructor called while the loop holds no mutex.
C31_DestructionOutsideSections ==
    LET held == {"resend", "ack", "clear_send", "parse", "clear_state"}
    IN /\ (locks.dtor = "want_send" /\ locks.task \notin held)
            => locks.send_mutex_ # "task"
       /\ (locks.dtor = "done" /\ locks.task \notin held)
            => /\ ~locks.alive
               /\ locks.stored = 0
               /\ locks.send_mutex_ = "free"
               /\ locks.state_mutex_ = "free"

\* The loop waits for a mutex that the application thread holds, and the
\* application thread waits for one that the loop holds.
LoopWaitsForApp ==
    \/ locks.task = "wait_state" /\ locks.state_mutex_ = "user"
    \/ locks.task = "want_send" /\ locks.send_mutex_ = "caller"

AppWaitsForLoop == locks.caller = "want_send" /\ locks.send_mutex_ = "task"

\* C38: the library never holds one of the two mutexes while it acquires
\* the other (the loop never owns both, and owns none while it waits in
\* Reconnect_), so the receive loop and a caller, also one that holds the
\* state mutex while calling SendCommands, never wait on each other in a
\* cycle.
C38_NoLockCycle ==
    /\ ~(locks.send_mutex_ = "task" /\ locks.state_mutex_ = "task")
    /\ locks.task \in {"wait_state", "want_send"}
         => (locks.send_mutex_ # "task" /\ locks.state_mutex_ # "task")
    /\ ~(LoopWaitsForApp /\ AppWaitsForLoop)

\* C38 witness: the application holds the state mutex and is inside
\* SendCommands holding send_mutex_ while the loop waits in Reconnect_ for
\* the state mutex.
C38_Witness ==
    /\ locks.state_mutex_ = "user"
    /\ locks.caller = "store"
    /\ locks.task = "wait_state"
    /\ locks.dtor = "none"

====
